---------------------------- MODULE Spec2Model ----------------------------
(***************************************************************************)
(* A model of payload-feature-flags: the stored feature-flag documents,   *)
(* the server-side evaluators (isUserInRollout, getUserVariant), the      *)
(* client-side evaluators (useRolloutCheck, useVariantSelection) and the  *)
(* REST endpoint handler.                                                  *)
(*                                                                         *)
(* JavaScript numbers are IEEE doubles: the hash accumulator is an exact  *)
(* integer that may leave the signed 32-bit range, while `<<` works on    *)
(* its ToInt32 image.  TLC's integers are 32 bits wide, so an accumulator *)
(* value v is kept as the pair [hi, lo] with v = hi * 65536 + lo and      *)
(* 0 <= lo < 65536.                                                        *)
(***************************************************************************)
EXTENDS Integers, Sequences, FiniteSets, TLC

VARIABLES
  store,       \* the feature-flags collection: flag name -> stored document
  userId,      \* the user identifier the caller passes (a sequence of UTF-16 code units)
  call,        \* the last evaluator call on (store, userId) and what it returned
  readAccess,  \* the collection's read access rule
  response,    \* the last response of the REST endpoint handler
  payload,     \* the Payload instance a server-side caller passes
  hook,        \* useSpecificFeatureFlag's state: flag, loading, error
  inflight,    \* the number of the hook's fetches that have not settled
  plugin,      \* the plugin's build and options, the config it is given
               \* and the config it returns
  latest,      \* the hook's most recently started fetch: whether it is
               \* unsettled, and the flag and error it settled with
  listHook,    \* useFeatureFlags' state as useFeatureFlag calls it: flags,
               \* loading, error, and its unsettled fetches
  table,       \* the admin table's state: flags, loading, error, saving,
               \* successMessage
  net          \* around the admin table: the canUpdate prop, the PATCH
               \* requests and fetches that have not settled, the timers

vars == <<store, userId, call, readAccess, response, payload, hook, inflight,
          plugin, latest, listHook, table, net>>

-----------------------------------------------------------------------------
(* Bounds and input domains *)

\* Longest userId the caller passes.
MaxLen == 5

\* Code units a userId is made of: 'a', e-acute (above 127), 0xFFFF.
Chars == {97, 233, 65535}

\* The flag the evaluators are asked about.
FlagName == "beta"

\* Values of rolloutPercentage a stored document may carry (the field may
\* also be missing).  FeatureFlag.rolloutPercentage is any number.
Percentages == {-5, 0, 1, 50, 99, 100, 150}

Variant(n, w) == [name |-> n, weight |-> w]

\* Values of variants a stored document may carry (the field may also be
\* missing).  FeatureFlag.variants[i].weight is any number.
VariantLists ==
  { << >>,
    << Variant("A", 10) >>,
    << Variant("A", 0) >>,
    << Variant("A", 50), Variant("B", 0), Variant("C", 50) >>,
    << Variant("A", 50), Variant("B", 50) >>,
    << Variant("A", 0), Variant("B", 30) >>,
    << Variant("A", 60), Variant("B", 60) >>,
    << Variant("A", 10), Variant("B", 80), Variant("C", -50) >> }

\* The return value null.
Null == "null"

\* getFeatureFlag's null.
NoFlag == [isNull |-> TRUE]

NoCall == [op |-> "none"]

-----------------------------------------------------------------------------
(* JavaScript number arithmetic on the hash accumulator *)

\* hi * 65536 + lo, with lo brought into 0 .. 65535.
Norm(hi, lo) == [hi |-> hi + (lo \div 65536), lo |-> lo % 65536]

\* ToInt32: the value modulo 2^32, read as a signed 32-bit integer.
ToInt32(w) ==
  LET h == w.hi % 65536
  IN  [hi |-> IF h >= 32768 THEN h - 65536 ELSE h, lo |-> w.lo]

InInt32(w) == w.hi >= -32768 /\ w.hi <= 32767

\* acc << 5: ToInt32(acc), shifted, truncated to 32 bits.
ShiftLeft5(acc) == ToInt32(Norm(32 * ToInt32(acc).hi, 32 * acc.lo))

\* acc * 33 + code, the same hash with the subtraction turned into an addition.
HashStepTimes33(acc, code) ==
  LET s == ShiftLeft5(acc)
  IN  Norm(s.hi + acc.hi, s.lo + acc.lo + code)

\* ((acc << 5) - acc) + char.charCodeAt(0): the subtraction and the
\* addition are double arithmetic, exact on these magnitudes.
HashStep(acc, code) ==
  LET s == ShiftLeft5(acc)
  IN  Norm(s.hi - acc.hi, s.lo - acc.lo + code)

\* userId.split('').reduce(..., 0)
RECURSIVE Reduce(_, _)
Reduce(chars, acc) ==
  IF chars = << >> THEN acc
  ELSE Reduce(Tail(chars), HashStep(acc, Head(chars)))

Hash(id) == Reduce(id, [hi |-> 0, lo |-> 0])

\* Math.abs
MathAbs(w) == IF w.hi < 0 THEN Norm(-w.hi, -w.lo) ELSE w

\* x % 100 on a non-negative x (65536 % 100 = 36).
Mod100(w) == (((w.hi % 100) * 36) + w.lo) % 100

\* JavaScript's x % 100: the result takes the sign of x.
JsRem100(w) == IF w.hi < 0 THEN -Mod100(MathAbs(w)) ELSE Mod100(w)

\* hash % 100, Math.abs left out.
BucketNoAbs(id) == JsRem100(Hash(id))

\* Math.abs(hash) % 100
Bucket(id) == JsRem100(MathAbs(Hash(id)))


-----------------------------------------------------------------------------
(* Stored documents and the lookup *)

HasField(doc, f) == f \in DOMAIN doc

SetField(doc, f, v) == (f :> v) @@ doc

DropField(doc, f) == [k \in (DOMAIN doc) \ {f} |-> doc[k]]

\* payload.find({ collection, where: { name: { equals: flagName } }, limit: 1 })
\* on the collection, whose name field is unique: result.docs.
FindByName(st, flagName) ==
  IF flagName \in DOMAIN st THEN << st[flagName] >> ELSE << >>

\* The Payload instance passed to a server-side utility: one whose find
\* runs, one whose find throws, or none (the parameter is optional).
Payloads == {"ready", "throws", "missing"}

\* The try block reaches the end of payload.find.
FindReturns == payload = "ready"

\* getFeatureFlag: null when the try block throws (no payload, or find
\* throws) or when no document has the name, the document's fields
\* otherwise.
GetFeatureFlag(st, flagName) ==
  IF ~FindReturns THEN NoFlag
  ELSE LET docs == FindByName(st, flagName)
       IN  IF Len(docs) = 0 THEN NoFlag ELSE docs[1]

\* A test of the flag alone: any flag that was found passes.
OptEnabledFieldPresent(flag) == HasField(flag, "enabled")

\* flag?.enabled ?? true
OptEnabledDefaultOn(flag) == ~HasField(flag, "enabled") \/ flag.enabled

\* flag?.enabled
OptEnabled(flag) == HasField(flag, "enabled") /\ flag.enabled

-----------------------------------------------------------------------------
(* The cumulative-weight walk, shared text of getUserVariant and          *)
(* selectVariantForUser                                                    *)

\* A walk that keeps going and returns the last variant above the bucket.
RECURSIVE WalkFromLast(_, _, _, _)
WalkFromLast(variants, i, cumulative, bucket) ==
  IF i > Len(variants) THEN 0
  ELSE LET c    == cumulative + variants[i].weight
           rest == WalkFromLast(variants, i + 1, c, bucket)
       IN  IF rest # 0 THEN rest ELSE IF bucket < c THEN i ELSE 0

\* The same walk with <= in the comparison.
RECURSIVE WalkFromInclusive(_, _, _, _)
WalkFromInclusive(variants, i, cumulative, bucket) ==
  IF i > Len(variants) THEN 0
  ELSE LET c == cumulative + variants[i].weight
       IN  IF bucket <= c THEN i ELSE WalkFromInclusive(variants, i + 1, c, bucket)

\* for (const variant of variants) { cumulative += variant.weight;
\*   if (bucket < cumulative) return variant.name }
\* The index of the variant the loop returns, 0 when the loop ends.
RECURSIVE WalkFrom(_, _, _, _)
WalkFrom(variants, i, cumulative, bucket) ==
  IF i > Len(variants) THEN 0
  ELSE LET c == cumulative + variants[i].weight
       IN  IF bucket < c THEN i ELSE WalkFrom(variants, i + 1, c, bucket)

Walk(variants, bucket) == WalkFrom(variants, 1, 0, bucket)

\* return null after the loop, no fallback.
FirstNameDropped(variants) == Null

\* variants[0]?.name || null
FirstNameOrNull(variants) ==
  IF Len(variants) = 0 \/ variants[1].name = "" THEN Null ELSE variants[1].name

\* variants[variants.length - 1]?.name || null
FallbackLast(variants) ==
  IF Len(variants) = 0 \/ variants[Len(variants)].name = ""
  THEN Null ELSE variants[Len(variants)].name

Fallback(variants) == FirstNameOrNull(variants)

\* The loop, then the fallback after it.
PickVariant(variants, bucket) ==
  LET i == Walk(variants, bucket)
  IN  IF i # 0 THEN variants[i].name ELSE Fallback(variants)

-----------------------------------------------------------------------------
(* Server-side evaluators *)

\* !flag.rolloutPercentage || flag.rolloutPercentage === 100
RolloutSkipsBucketing(flag) ==
  \/ ~HasField(flag, "rolloutPercentage")
  \/ flag.rolloutPercentage = 0
  \/ flag.rolloutPercentage = 100

\* isUserInRollout with <= in the last comparison.
ServerRolloutLessOrEqual(flag, id) ==
  IF ~OptEnabled(flag) THEN FALSE
  ELSE IF RolloutSkipsBucketing(flag) THEN TRUE
  ELSE Bucket(id) <= flag.rolloutPercentage

\* isUserInRollout, after the lookup
ServerRollout(flag, id) ==
  IF ~OptEnabled(flag) THEN FALSE
  ELSE IF RolloutSkipsBucketing(flag) THEN TRUE
  ELSE Bucket(id) < flag.rolloutPercentage

\* getUserVariant, after the lookup
ServerVariant(flag, id) ==
  IF ~OptEnabled(flag) \/ ~HasField(flag, "variants") \/ Len(flag.variants) = 0
  THEN Null
  ELSE PickVariant(flag.variants, Bucket(id))

\* isFeatureEnabled that keeps the value it returned before.
IsFeatureEnabledMemo(st, flagName) ==
  IF call.op = "stale" /\ call.was = "isFeatureEnabled"
  THEN call.result
  ELSE OptEnabled(GetFeatureFlag(st, flagName))

\* flag?.enabled ?? false
IsFeatureEnabled(st, flagName) == OptEnabled(GetFeatureFlag(st, flagName))

IsUserInRollout(st, flagName, id) == ServerRollout(GetFeatureFlag(st, flagName), id)

GetUserVariant(st, flagName, id) == ServerVariant(GetFeatureFlag(st, flagName), id)

-----------------------------------------------------------------------------
(* Client-side evaluators *)

\* checkUserInRollout with the last comparison turned round.
CheckUserInRolloutInverted(id, percentage) ==
  IF percentage >= 100 THEN TRUE
  ELSE IF percentage <= 0 THEN FALSE
  ELSE Bucket(id) >= percentage

\* checkUserInRollout with <= in the last comparison.
CheckUserInRolloutInclusive(id, percentage) ==
  IF percentage >= 100 THEN TRUE
  ELSE IF percentage <= 0 THEN FALSE
  ELSE Bucket(id) <= percentage

\* checkUserInRollout
CheckUserInRollout(id, percentage) ==
  IF percentage >= 100 THEN TRUE
  ELSE IF percentage <= 0 THEN FALSE
  ELSE Bucket(id) < percentage

\* selectVariantForUser that returns null when the loop ends.
SelectVariantLoopOnly(id, variants) ==
  IF Len(variants) = 0 \/ Walk(variants, Bucket(id)) = 0 THEN Null
  ELSE variants[Walk(variants, Bucket(id))].name

\* selectVariantForUser
SelectVariantForUser(id, variants) ==
  IF Len(variants) = 0 THEN Null ELSE PickVariant(variants, Bucket(id))

\* flag.rolloutPercentage || 0
PercentageOrZero(flag) ==
  IF HasField(flag, "rolloutPercentage") THEN flag.rolloutPercentage ELSE 0

\* flag.rolloutPercentage || 100
PercentageOr100(flag) ==
  IF HasField(flag, "rolloutPercentage") /\ flag.rolloutPercentage # 0
  THEN flag.rolloutPercentage ELSE 100

\* useRolloutCheck's isInRollout, on the flag useSpecificFeatureFlag holds
UseRolloutCheck(flag, id) ==
  IF OptEnabled(flag) THEN CheckUserInRollout(id, PercentageOr100(flag)) ELSE FALSE

\* useVariantSelection's variant, on the flag useSpecificFeatureFlag holds
UseVariantSelection(flag, id) ==
  IF OptEnabled(flag) /\ HasField(flag, "variants")
  THEN SelectVariantForUser(id, flag.variants) ELSE Null

-----------------------------------------------------------------------------
(* The evaluation machine: an administrator edits the stored flag, a      *)
(* caller passes a userId, the evaluators are called.                      *)

NoResponse == [status |-> 0]

\* A document as the collection creates it: enabled defaults to
\* defaultValue (false), rolloutPercentage to 100, no variants.
NewDoc(flagName) == [name |-> flagName, enabled |-> FALSE, rolloutPercentage |-> 100]

\* The empty object {}.
EmptyObject == [k \in {} |-> TRUE]

NotApplied == [done |-> FALSE]

\* payloadFeatureFlags() with no options, not yet applied to a config
\* that sets nothing.
InitialPlugin ==
  [build |-> "overview", options |-> EmptyObject, config |-> EmptyObject,
   returned |-> NotApplied]

\* useState(null), useState(true), useState(null)
InitialHook == [flag |-> NoFlag, loading |-> TRUE, error |-> Null]

\* saving = null
NoId == 0

\* A row of the admin table.
Entry(id, enabled, updatedAt) ==
  [id |-> id, name |-> "flag", enabled |-> enabled, updatedAt |-> updatedAt]

\* The initialFlags prop.
InitialFlags == << Entry(1, FALSE, "t0"), Entry(2, FALSE, "t0") >>

\* useState(initialFlags), useState(false), useState(''), useState(null),
\* useState('')
InitialTable ==
  [flags |-> InitialFlags, loading |-> FALSE, error |-> "", saving |-> NoId,
   successMessage |-> ""]

\* canUpdate = true; nothing sent, no timer set, the mount effect has not
\* run.
InitialNet ==
  [canUpdate |-> TRUE, patches |-> << >>, errorTimer |-> FALSE,
   signal |-> "none", aborted |-> 0, plain |-> 0, abortedSettled |-> FALSE]

\* No fetch has been started.
NoFetch == [pending |-> FALSE]

\* useFeatureFlags([{ name: flagName }]): useState(initialFlags),
\* useState(true), useState(null); the mount effect has not run.
InitialListHook ==
  [flags |-> << [name |-> FlagName] >>, loading |-> TRUE, error |-> Null,
   pending |-> 0, mounted |-> FALSE]

Init ==
  /\ store = << >>
  /\ userId = << >>
  /\ call = NoCall
  /\ readAccess = "anyone"
  /\ response = NoResponse
  /\ payload = "ready"
  /\ hook = InitialHook
  /\ inflight = 0
  /\ plugin = InitialPlugin
  /\ latest = NoFetch
  /\ listHook = InitialListHook
  /\ table = InitialTable
  /\ net = InitialNet

Stored == FlagName \in DOMAIN store

\* A write to the stored document; what an earlier call returned is gone.
WriteFlag(doc) ==
  /\ store' = [store EXCEPT ![FlagName] = doc]
  /\ call' = NoCall
  /\ UNCHANGED <<userId, readAccess, response, payload, hook, inflight, plugin, latest, listHook, table, net>>

CreateFlag ==
  /\ ~Stored
  /\ store' = (FlagName :> NewDoc(FlagName)) @@ store
  /\ call' = NoCall
  /\ UNCHANGED <<userId, readAccess, response, payload, hook, inflight, plugin, latest, listHook, table, net>>

DeleteFlag ==
  /\ Stored
  /\ store' = [n \in (DOMAIN store) \ {FlagName} |-> store[n]]
  /\ call' = NoCall
  /\ UNCHANGED <<userId, readAccess, response, payload, hook, inflight, plugin, latest, listHook, table, net>>

SetEnabled ==
  /\ Stored
  /\ WriteFlag(SetField(store[FlagName], "enabled", ~store[FlagName].enabled))

SetRolloutPercentage ==
  /\ Stored
  /\ \E p \in Percentages :
       /\ ~(HasField(store[FlagName], "rolloutPercentage")
            /\ store[FlagName].rolloutPercentage = p)
       /\ WriteFlag(SetField(store[FlagName], "rolloutPercentage", p))

ClearRolloutPercentage ==
  /\ Stored
  /\ HasField(store[FlagName], "rolloutPercentage")
  /\ WriteFlag(DropField(store[FlagName], "rolloutPercentage"))

SetVariants ==
  /\ Stored
  /\ \E v \in VariantLists :
       /\ ~(HasField(store[FlagName], "variants") /\ store[FlagName].variants = v)
       /\ WriteFlag(SetField(store[FlagName], "variants", v))

ClearVariants ==
  /\ Stored
  /\ HasField(store[FlagName], "variants")
  /\ WriteFlag(DropField(store[FlagName], "variants"))

\* The caller's userId grows by one code unit.
ExtendUserId ==
  /\ Len(userId) < MaxLen
  /\ \E c \in Chars : userId' = Append(userId, c)
  /\ call' = NoCall
  /\ UNCHANGED <<store, readAccess, response, payload, hook, inflight, plugin, latest, listHook, table, net>>

\* The caller passes the empty userId again.
ResetUserId ==
  /\ userId # << >>
  /\ userId' = << >>
  /\ call' = NoCall
  /\ UNCHANGED <<store, readAccess, response, payload, hook, inflight, plugin, latest, listHook, table, net>>

\* What a call returned, once the state it was computed from has changed.
Stale(c) ==
  IF c.op \in {"none", "stale"} THEN c
  ELSE [op |-> "stale", was |-> c.op, result |-> c.result]

\* The call returns; when the same utility had returned before the last
\* change, that earlier value is kept beside the new one.
Returned(op, result) ==
  /\ call' = IF call.op = "stale" /\ call.was = op
              THEN [op |-> op, result |-> result, after |-> call.result]
              ELSE [op |-> op, result |-> result]
  /\ UNCHANGED <<store, userId, readAccess, response, payload, hook, inflight, plugin, latest, listHook, table, net>>

CallIsFeatureEnabled ==
  /\ call.op # "isFeatureEnabled"
  /\ Returned("isFeatureEnabled", IsFeatureEnabled(store, FlagName))

CallIsUserInRollout ==
  /\ call.op # "isUserInRollout"
  /\ Returned("isUserInRollout", IsUserInRollout(store, FlagName, userId))

CallGetUserVariant ==
  /\ call.op # "getUserVariant"
  /\ Returned("getUserVariant", GetUserVariant(store, FlagName, userId))

\* A render of useRolloutCheck once useSpecificFeatureFlag has loaded the
\* stored flag (flag = null when it is not found).
RenderUseRolloutCheck ==
  /\ call.op # "useRolloutCheck"
  /\ Returned("useRolloutCheck", UseRolloutCheck(GetFeatureFlag(store, FlagName), userId))

\* A render of useVariantSelection, likewise.
RenderUseVariantSelection ==
  /\ call.op # "useVariantSelection"
  /\ Returned("useVariantSelection",
              UseVariantSelection(GetFeatureFlag(store, FlagName), userId))

Next ==
  \/ CreateFlag
  \/ DeleteFlag
  \/ SetEnabled
  \/ SetRolloutPercentage
  \/ ClearRolloutPercentage
  \/ SetVariants
  \/ ClearVariants
  \/ ExtendUserId
  \/ ResetUserId
  \/ CallIsUserInRollout
  \/ CallGetUserVariant
  \/ RenderUseRolloutCheck
  \/ RenderUseVariantSelection

Spec == Init /\ [][Next]_vars

-----------------------------------------------------------------------------
(* The REST endpoints: GET /api/feature-flags and                          *)
(* GET /api/feature-flags/:flag, both served by customEndpointHandler.     *)

\* Names of the documents of the collection the endpoints are asked about.
ApiNames == {"alpha", "beta", "feature-flags"}

\* A name no document carries.
MissingName == "gamma"

OptionalFields == {"rolloutPercentage", "variants", "metadata"}

FullDoc(n, e) ==
  [name |-> n, enabled |-> e, description |-> "internal note",
   rolloutPercentage |-> 50,
   variants |-> << Variant("A", 50), Variant("B", 50) >>,
   metadata |-> "meta"]

\* The documents a name may be stored with: every choice of enabled and of
\* which optional fields are present.
ApiDocs(n) ==
  { [k \in {"name", "enabled", "description"} \cup opt |-> FullDoc(n, e)[k]] :
      e \in BOOLEAN, opt \in SUBSET OptionalFields }

Anonymous == "anonymous"

Users == {Anonymous, "member"}

\* The read access rules of the collection: no rule restricting reads, or
\* read: ({ req: { user } }) => !!user.
AccessRules == {"anyone", "loggedIn"}

ReadAllowed(rule, user) == rule = "anyone" \/ user # Anonymous

\* What the handler passes to payload.find as overrideAccess: nothing, and
\* the Local API then takes overrideAccess = true.
HandlerOverrideAccess == TRUE

\* Whether the Local API's find runs: with overrideAccess it skips the
\* collection's access rule, without it the rule decides (and a denied
\* find throws).
FindRuns(overrideAccess, rule, user) == overrideAccess \/ ReadAllowed(rule, user)

\* payload.find without the where clause.
FindEvery(st) == DOMAIN st

\* payload.find({ collection, where: { enabled: { equals: true } }, limit: 1000 })
FindEnabled(st) == { n \in DOMAIN st : st[n].enabled }

Project(doc, fields) == [k \in (DOMAIN doc) \cap fields |-> doc[k]]

\* The body of a specific flag's response: undefined fields are not
\* serialised.
FlagBody(doc) ==
  Project(doc, {"name", "enabled", "rolloutPercentage", "variants", "metadata"})

\* One entry of the list response.
ListEntry(doc) ==
  Project(doc, {"enabled", "rolloutPercentage", "variants", "metadata"})

ErrorBody(msg) == [error |-> msg]

\* customEndpointHandler: the response to a GET of the path by the user.
Handle(st, rule, user, pathParts) ==
  LET flagName == pathParts[Len(pathParts)]
      runs     == FindRuns(HandlerOverrideAccess, rule, user)
  IN  IF flagName # "" /\ flagName # "feature-flags"
      THEN IF ~runs
           THEN [status |-> 500, body |-> ErrorBody("Failed to fetch feature flag")]
           ELSE LET docs == FindByName(st, flagName)
                IN  IF Len(docs) = 0
                    THEN [status |-> 404, body |-> ErrorBody("Feature flag not found")]
                    ELSE [status |-> 200, body |-> FlagBody(docs[1])]
      ELSE IF ~runs
           THEN [status |-> 500, body |-> ErrorBody("Failed to fetch feature flags")]
           ELSE [status |-> 200,
                 body |-> [n \in FindEnabled(st) |-> ListEntry(st[n])]]

\* getAllFeatureFlags: one FeatureFlag per document found, keyed by name;
\* {} when the try block throws.
GetAllFeatureFlags(st) ==
  IF ~FindReturns THEN << >>
  ELSE [n \in FindEnabled(st) |-> FlagBody(st[n])]

ListPath == << "api", "feature-flags" >>

FlagPath(n) == << "api", "feature-flags", n >>

\* A change of the collection; the last response is gone.
ApiWrite(newStore) ==
  /\ store' = newStore
  /\ response' = NoResponse
  /\ call' = NoCall
  /\ UNCHANGED <<userId, readAccess, payload, hook, inflight, plugin, latest, listHook, table, net>>

ApiCreate ==
  \E n \in ApiNames :
    /\ n \notin DOMAIN store
    /\ \E d \in ApiDocs(n) : ApiWrite((n :> d) @@ store)

ApiUpdate ==
  \E n \in ApiNames :
    /\ n \in DOMAIN store
    /\ \E d \in ApiDocs(n) :
         /\ d # store[n]
         /\ ApiWrite([store EXCEPT ![n] = d])

ApiDelete ==
  \E n \in ApiNames :
    /\ n \in DOMAIN store
    /\ ApiWrite([m \in (DOMAIN store) \ {n} |-> store[m]])

\* The collection is configured with another read access rule.
SetReadAccess ==
  /\ \E r \in AccessRules : r # readAccess /\ readAccess' = r
  /\ response' = NoResponse
  /\ UNCHANGED <<store, userId, call, payload, hook, inflight, plugin, latest, listHook, table, net>>

Respond(user, pathParts) ==
  /\ response' = [user |-> user, path |-> pathParts]
                   @@ Handle(store, readAccess, user, pathParts)
  /\ UNCHANGED <<store, userId, call, readAccess, payload, hook, inflight, plugin, latest, listHook, table, net>>

GetAllFlags ==
  \E u \in Users : Respond(u, ListPath)

GetFlag ==
  \E u \in Users, n \in ApiNames \cup {MissingName} : Respond(u, FlagPath(n))

\* A server component calls getAllFeatureFlags(payload).
CallGetAllFeatureFlags ==
  /\ call.op # "getAllFeatureFlags"
  /\ Returned("getAllFeatureFlags", GetAllFeatureFlags(store))

NextApi ==
  \/ CallGetAllFeatureFlags
  \/ ApiCreate
  \/ ApiUpdate
  \/ ApiDelete
  \/ SetReadAccess
  \/ GetAllFlags
  \/ GetFlag

SpecApi == Init /\ [][NextApi]_vars

-----------------------------------------------------------------------------
(* The application: server components call the utilities with the payload *)
(* instance they hold while the collection changes, and a client          *)
(* component renders the hooks around useSpecificFeatureFlag.             *)

\* The fetches of the hook that may be unsettled at once.
MaxInFlight == 2

\* The documents the flag is stored with.
AppDocs == { d \in ApiDocs(FlagName) : HasField(d, "metadata") }

AppUserIds == { << >>, << 97 >> }

\* A change of what the utilities and the hook read.
Changed ==
  /\ call' = Stale(call)
  /\ UNCHANGED <<readAccess, response, table, net>>

SaveFlag ==
  \E d \in AppDocs :
    /\ IF Stored THEN store[FlagName] # d ELSE TRUE
    /\ store' = (FlagName :> d)
    /\ Changed
    /\ UNCHANGED <<userId, payload, hook, inflight, plugin, latest, listHook, table, net>>

RemoveFlag ==
  /\ Stored
  /\ store' = << >>
  /\ Changed
  /\ UNCHANGED <<userId, payload, hook, inflight, plugin, latest, listHook, table, net>>

\* The caller holds another payload instance, or none.
PassPayload ==
  \E p \in Payloads :
    /\ p # payload
    /\ payload' = p
    /\ Changed
    /\ UNCHANGED <<store, userId, hook, inflight, plugin, latest, listHook, table, net>>

PassUserId ==
  \E id \in AppUserIds :
    /\ id # userId
    /\ userId' = id
    /\ Changed
    /\ UNCHANGED <<store, payload, hook, inflight, plugin, latest, listHook, table, net>>

\* fetchFlag up to the await: setLoading(true), setError(null).  The
\* mount effect calls it, and so does refetch, also while an earlier
\* fetch is unsettled.
StartFetch ==
  /\ inflight < MaxInFlight
  /\ inflight' = inflight + 1
  /\ hook' = [hook EXCEPT !.loading = TRUE, !.error = Null]
  /\ latest' = [pending |-> TRUE]
  /\ Changed
  /\ UNCHANGED <<store, userId, payload, plugin, listHook, table, net>>

\* What the fetch settles with: a response that is ok, a response that
\* is not, or a rejection.
FetchOutcomes == {"ok", "notOk", "rejected"}

\* The rest of fetchFlag with setLoading(false) at the end of the try
\* block, not in a finally block.
SettledNoFinally(h, st, flagName, outcome) ==
  IF outcome = "ok"
  THEN IF Len(FindByName(st, flagName)) > 0
       THEN [h EXCEPT !.flag = FlagBody(FindByName(st, flagName)[1]),
                      !.loading = FALSE]
       ELSE [flag |-> NoFlag, loading |-> FALSE, error |-> "not found"]
  ELSE [flag |-> NoFlag, loading |-> h.loading, error |-> outcome]

\* The hook's state after the rest of fetchFlag.
Settled(h, st, flagName, outcome) ==
  IF outcome = "ok"
  THEN IF Len(FindByName(st, flagName)) > 0
       THEN [h EXCEPT !.flag = FlagBody(FindByName(st, flagName)[1]),
                      !.loading = FALSE]
       ELSE [flag |-> NoFlag, loading |-> FALSE, error |-> "not found"]
  ELSE [flag |-> NoFlag, loading |-> FALSE,
        error |-> IF outcome = "notOk" THEN "Failed to fetch feature flag"
                  ELSE "rejected"]

\* The flag and error the rest of fetchFlag leaves when no other fetch
\* has written since its start.
OwnResult(st, flagName, outcome) ==
  LET h == Settled([InitialHook EXCEPT !.loading = TRUE], st, flagName, outcome)
  IN  [pending |-> FALSE, flag |-> h.flag, error |-> h.error]

\* One of the unsettled fetches settles: the most recently started one,
\* or one started before it.
SettleFetch ==
  \E outcome \in FetchOutcomes, isLatest \in BOOLEAN :
    /\ IF isLatest THEN latest.pending
        ELSE inflight > (IF latest.pending THEN 1 ELSE 0)
    /\ inflight' = inflight - 1
    /\ hook' = Settled(hook, store, FlagName, outcome)
    /\ latest' = IF isLatest THEN OwnResult(store, FlagName, outcome) ELSE latest
    /\ Changed
    /\ UNCHANGED <<store, userId, payload, plugin, listHook, table, net>>

\* A render of useRolloutCheck on the flag the hook holds.
HookRolloutCheck ==
  /\ call.op # "useRolloutCheck"
  /\ Returned("useRolloutCheck", UseRolloutCheck(hook.flag, userId))

\* A render of useVariantSelection on the flag the hook holds.
HookVariantSelection ==
  /\ call.op # "useVariantSelection"
  /\ Returned("useVariantSelection", UseVariantSelection(hook.flag, userId))

NextApp ==
  \/ SaveFlag
  \/ RemoveFlag
  \/ PassPayload
  \/ PassUserId
  \/ (inflight = 0 /\ StartFetch)
  \/ SettleFetch
  \/ CallIsFeatureEnabled
  \/ CallIsUserInRollout
  \/ CallGetUserVariant
  \/ HookRolloutCheck
  \/ HookVariantSelection

SpecApp == Init /\ [][NextApp]_vars

-----------------------------------------------------------------------------
(* The hooks of a client component: useSpecificFeatureFlag with refetch   *)
(* and overlapping fetches, and a component wrapped by withFeatureFlag,   *)
(* whose useFeatureFlag calls useFeatureFlags([{ name: flagName }]).      *)

\* useFeatureFlags' state after the rest of fetchFlags: the fetched flag,
\* or the initial flag when no document has the name; on a failure the
\* error, with the flags kept; loading false in both cases.
SettledList(h, st, flagName, outcome) ==
  IF outcome = "ok"
  THEN [h EXCEPT !.flags = IF Len(FindByName(st, flagName)) > 0
                           THEN << FlagBody(FindByName(st, flagName)[1]) >>
                           ELSE << [name |-> flagName] >>,
                 !.loading = FALSE, !.pending = 0]
  ELSE [h EXCEPT !.error = IF outcome = "notOk"
                           THEN "Failed to fetch feature flags" ELSE "rejected",
                 !.loading = FALSE, !.pending = 0]

\* The wrapped component mounts: first render, then the mount effect calls
\* fetchFlags, which sets loading true and error null and awaits fetch.
MountWrapper ==
  /\ ~listHook.mounted
  /\ listHook' = [InitialListHook EXCEPT !.mounted = TRUE, !.pending = 1]
  /\ Changed
  /\ UNCHANGED <<store, userId, payload, hook, inflight, plugin, latest, table, net>>

\* The component unmounts; its state is gone, and what an unsettled fetch
\* sets later is dropped.
UnmountWrapper ==
  /\ listHook.mounted
  /\ listHook' = InitialListHook
  /\ Changed
  /\ UNCHANGED <<store, userId, payload, hook, inflight, plugin, latest, table, net>>

SettleListFetch ==
  \E outcome \in FetchOutcomes :
    /\ listHook.pending > 0
    /\ listHook' = SettledList(listHook, store, FlagName, outcome)
    /\ Changed
    /\ UNCHANGED <<store, userId, payload, hook, inflight, plugin, latest, table, net>>

\* flags.find(f => f.name === flagName) || null
FindFlag(flags, flagName) ==
  IF \E i \in 1 .. Len(flags) : flags[i].name = flagName
  THEN flags[CHOOSE i \in 1 .. Len(flags) :
               /\ flags[i].name = flagName
               /\ \A j \in 1 .. (i - 1) : flags[j].name # flagName]
  ELSE NoFlag

\* useFeatureFlag: isEnabled = flag?.enabled || false
UseFeatureFlag(h, flagName) ==
  [isEnabled |-> OptEnabled(FindFlag(h.flags, flagName)), loading |-> h.loading]

\* WithFeatureFlagComponent that does not look at loading.
WithFeatureFlagNoLoading(h, flagName, hasFallback) ==
  IF ~UseFeatureFlag(h, flagName).isEnabled
  THEN IF hasFallback THEN "fallback" ELSE "nothing"
  ELSE "wrapped"

\* WithFeatureFlagComponent: what it returns.
WithFeatureFlag(h, flagName, hasFallback) ==
  LET u == UseFeatureFlag(h, flagName)
  IN  IF u.loading THEN "nothing"
      ELSE IF ~u.isEnabled
           THEN IF hasFallback THEN "fallback" ELSE "nothing"
           ELSE "wrapped"

\* A render of the component withFeatureFlag(flagName, Fallback?) returns.
RenderWrapper ==
  \E hasFallback \in BOOLEAN :
    /\ listHook.mounted
    /\ Returned("withFeatureFlag",
                [fallback |-> hasFallback,
                 element |-> WithFeatureFlag(listHook, FlagName, hasFallback)])

NextHook ==
  \/ CreateFlag
  \/ DeleteFlag
  \/ SetEnabled
  \/ StartFetch
  \/ SettleFetch
  \/ MountWrapper
  \/ UnmountWrapper
  \/ SettleListFetch
  \/ RenderWrapper

SpecHook == Init /\ [][NextHook]_vars

\* A fetch the browser has started settles: it resolves or it rejects.
FairSpecHook ==
  SpecHook /\ WF_vars(SettleFetch) /\ WF_vars(SettleListFetch)

-----------------------------------------------------------------------------
(* The admin table (FeatureFlagsClientComponent): updateFlag sends PATCH   *)
(* requests, fetchFlags loads the list under the effect's abort signal or *)
(* from the refresh button without one.                                   *)

\* The PATCH requests that may be unsettled at once.
MaxPatches == 2

\* The fetches that may be unsettled at once.
MaxFetches == 2

TableIds == {1, 2}

\* What the checkbox sends.
Updates == { [enabled |-> TRUE] }

PermissionError == "You do not have permission to update feature flags"

UpdateErrors == [notOk |-> "Failed to update feature flag", rejected |-> "rejected"]

FetchErrors == [notOk |-> "Failed to fetch feature flags", rejected |-> "rejected"]

Saved == "Saved"

\* The docs a fetch may be answered with; one of them has no name.
ServerLists ==
  { << Entry(1, TRUE, "t2"),
       [id |-> 2, enabled |-> TRUE, updatedAt |-> "t2"] >> }

\* (result.docs || []).filter(flag => flag && flag.id && flag.name)
ValidDocs(docs) ==
  SelectSeq(docs, LAMBDA d : HasField(d, "id") /\ HasField(d, "name"))

\* No permission check.
PermittedAlways(canUpdate) == TRUE

\* canUpdate
Permitted(canUpdate) == canUpdate

\* updateFlag up to the await: the permission check, or setSaving(flagId),
\* setError(''), setSuccessMessage('') and the PATCH request.
UpdateFlagCall(t, n, flagId, updates) ==
  IF ~Permitted(n.canUpdate)
  THEN [table |-> [t EXCEPT !.error = PermissionError],
        net |-> [n EXCEPT !.errorTimer = TRUE]]
  ELSE [table |-> [t EXCEPT !.saving = flagId, !.error = "", !.successMessage = ""],
        net |-> [n EXCEPT !.patches =
                   Append(@, [id |-> flagId, updates |-> updates])]]

\* { ...flag, ...updates, updatedAt }
Merged(flag, updates) == ("updatedAt" :> "t1") @@ updates @@ flag

\* The rest of updateFlag that merges the updates into every row.
PatchSettledEveryRow(t, patch, outcome) ==
  IF outcome = "ok"
  THEN [t EXCEPT !.flags = [j \in 1 .. Len(t.flags) |-> Merged(t.flags[j], patch.updates)],
                 !.successMessage = Saved, !.saving = NoId]
  ELSE [t EXCEPT !.error = UpdateErrors[outcome], !.saving = NoId]

\* The rest of updateFlag: the table's state after the PATCH settles.
PatchSettled(t, patch, outcome) ==
  IF outcome = "ok"
  THEN [t EXCEPT !.flags = [j \in 1 .. Len(t.flags) |->
                             IF t.flags[j].id = patch.id
                             THEN Merged(t.flags[j], patch.updates)
                             ELSE t.flags[j]],
                 !.successMessage = Saved, !.saving = NoId]
  ELSE [t EXCEPT !.error = UpdateErrors[outcome], !.saving = NoId]

\* The rest of fetchFlags without the tests of signal.aborted.
FetchSettledUnguarded(t, aborted, outcome, docs) ==
  IF outcome = "ok"
  THEN [t EXCEPT !.flags = ValidDocs(docs), !.loading = FALSE]
  ELSE IF outcome = "abortError"
  THEN IF aborted THEN t ELSE [t EXCEPT !.loading = FALSE]
  ELSE [t EXCEPT !.error = FetchErrors[outcome], !.loading = FALSE]

\* The rest of fetchFlags: the table's state after the fetch settles.
FetchSettled(t, aborted, outcome, docs) ==
  IF outcome = "ok"
  THEN IF aborted THEN t
       ELSE [t EXCEPT !.flags = ValidDocs(docs), !.loading = FALSE]
  ELSE IF outcome = "abortError"
  THEN IF aborted THEN t ELSE [t EXCEPT !.loading = FALSE]
  ELSE IF aborted THEN t
       ELSE [t EXCEPT !.error = FetchErrors[outcome], !.loading = FALSE]

AdminFrame ==
  UNCHANGED <<store, userId, call, readAccess, response, payload, hook, inflight,
              plugin, latest, listHook>>

\* The parent renders the table with another canUpdate.
SetCanUpdate ==
  /\ net' = [net EXCEPT !.canUpdate = ~@]
  /\ UNCHANGED table
  /\ AdminFrame

\* updateFlag(flagId, updates) is called.
UpdateFlag ==
  \E flagId \in TableIds, updates \in Updates :
    /\ Permitted(net.canUpdate) => Len(net.patches) < MaxPatches
    /\ table' = UpdateFlagCall(table, net, flagId, updates).table
    /\ net' = UpdateFlagCall(table, net, flagId, updates).net
    /\ AdminFrame

Remove(seq, i) == SubSeq(seq, 1, i - 1) \o SubSeq(seq, i + 1, Len(seq))

\* One of the PATCH requests settles; a failure sets the 5 s timer.
PatchSettle ==
  \E i \in 1 .. Len(net.patches), outcome \in {"ok", "notOk", "rejected"} :
    /\ table' = PatchSettled(table, net.patches[i], outcome)
    /\ net' = [net EXCEPT !.patches = Remove(@, i),
                          !.errorTimer = IF outcome = "ok" THEN @ ELSE TRUE]
    /\ AdminFrame

\* setTimeout(() => setError(''), 5000) fires; other such timers may
\* remain.
ErrorTimerFires ==
  \E remains \in BOOLEAN :
    /\ net.errorTimer
    /\ table' = [table EXCEPT !.error = ""]
    /\ net' = [net EXCEPT !.errorTimer = remains]
    /\ AdminFrame

\* setTimeout(() => setSuccessMessage(''), 2000) fires.
SuccessTimerFires ==
  /\ table.successMessage # ""
  /\ table' = [table EXCEPT !.successMessage = ""]
  /\ UNCHANGED net
  /\ AdminFrame

Unsettled == (IF net.signal = "live" THEN 1 ELSE 0) + net.aborted + net.plain

\* The effect runs: fetchFlags(abortController.signal) up to the await.
EffectRun ==
  /\ net.signal = "none"
  /\ Unsettled < MaxFetches
  /\ table' = [table EXCEPT !.loading = TRUE, !.error = ""]
  /\ net' = [net EXCEPT !.signal = "live", !.abortedSettled = FALSE]
  /\ AdminFrame

\* The effect's cleanup (unmount, or fetchFlags changed):
\* abortController.abort().
EffectCleanup ==
  /\ net.signal # "none"
  /\ net' = [net EXCEPT !.signal = "none",
                        !.aborted = IF net.signal = "live" THEN @ + 1 ELSE @]
  /\ UNCHANGED table
  /\ AdminFrame

\* The refresh button: fetchFlags() with no signal.
ClickRefresh ==
  /\ Unsettled < MaxFetches
  /\ table' = [table EXCEPT !.loading = TRUE, !.error = ""]
  /\ net' = [net EXCEPT !.plain = @ + 1]
  /\ AdminFrame

\* A fetch settles: the effect's under its signal, one whose signal was
\* aborted, or the button's.
FetchSettle ==
  \E kind \in {"live", "aborted", "plain"},
     outcome \in {"ok", "notOk", "rejected", "abortError"},
     docs \in ServerLists :
    /\ CASE kind = "live" -> net.signal = "live" /\ outcome # "abortError"
          [] kind = "aborted" -> net.aborted > 0
          [] OTHER -> net.plain > 0 /\ outcome # "abortError"
    /\ table' = FetchSettled(table, kind = "aborted", outcome, docs)
    /\ net' = CASE kind = "live" -> [net EXCEPT !.signal = "settled"]
                 [] kind = "aborted" ->
                      [net EXCEPT !.aborted = @ - 1, !.abortedSettled = TRUE]
                 [] OTHER -> [net EXCEPT !.plain = @ - 1]
    /\ AdminFrame

NextAdmin ==
  \/ SetCanUpdate
  \/ UpdateFlag
  \/ PatchSettle
  \/ ErrorTimerFires
  \/ SuccessTimerFires
  \/ EffectRun
  \/ EffectCleanup
  \/ ClickRefresh
  \/ FetchSettle

SpecAdmin == Init /\ [][NextAdmin]_vars

\* A timer that was set fires.
FairSpecAdmin == SpecAdmin /\ WF_vars(ErrorTimerFires)

-----------------------------------------------------------------------------
(* The plugin: payloadFeatureFlags(pluginOptions)(config).  The source     *)
(* holds three builds of it: one that adds an overview view and has no    *)
(* enableApi option, one that adds dashboard components, one that adds    *)
(* the overview view; the last two register the endpoints.                *)

Builds == {"listView", "dashboard", "overview"}

\* The options a build destructures, of those that decide what is
\* registered.
OptionNames(build) ==
  IF build = "listView" THEN {"disabled", "slug"}
  ELSE {"disabled", "enableApi", "slug"}

OptionValues(f) == IF f = "slug" THEN {"flags"} ELSE BOOLEAN

\* The early return on disabled left out.
OptDisabledIgnored(options) == FALSE

\* disabled = false
OptDisabled(options) == HasField(options, "disabled") /\ options.disabled

\* enableApi = true by default.
OptEnableApiDefaultOn(options) == ~HasField(options, "enableApi") \/ options.enableApi

\* enableApi = false
OptEnableApi(options) == HasField(options, "enableApi") /\ options.enableApi

\* collectionOverrides?.slug || 'feature-flags'
CollectionSlug(options) ==
  IF HasField(options, "slug") THEN options.slug ELSE "feature-flags"

FeatureFlagsCollection(options) ==
  [slug |-> CollectionSlug(options), useAsTitle |-> "name"]

\* An endpoint; its handler is named by the collection it is bound to.
Endpoint(method, path, handler) ==
  [method |-> method, path |-> path, handler |-> handler]

PluginEndpoints(options) ==
  << Endpoint("get", "/feature-flags", CollectionSlug(options)),
     Endpoint("get", "/feature-flags/:flag", CollectionSlug(options)) >>

\* if (!obj.f) obj.f = empty
OrEmpty(obj, f) == IF HasField(obj, f) THEN obj ELSE SetField(obj, f, EmptyObject)

OverviewView(build) ==
  [Component |-> IF build = "listView"
                 THEN "@xtr-dev/payload-feature-flags/views#FeatureFlagsView"
                 ELSE "payload-feature-flags/views#FeatureFlagsView",
   path |-> "/feature-flags-overview"]

DashboardComponents ==
  << "payload-feature-flags/client#BeforeDashboardClient",
     "payload-feature-flags/rsc#BeforeDashboardServer" >>

\* The admin components after the build's additions.
WithComponents(build, components) ==
  IF build = "dashboard"
  THEN LET c == OrEmpty(components, "beforeDashboard")
       IN  [c EXCEPT !.beforeDashboard = @ \o DashboardComponents]
  ELSE LET c == OrEmpty(components, "views")
       IN  [c EXCEPT !.views = SetField(@, "feature-flags-overview", OverviewView(build))]

\* payloadFeatureFlags(options)(config): the config it returns.
PayloadFeatureFlags(build, options, config) ==
  LET c1 == OrEmpty(config, "collections")
      c2 == [c1 EXCEPT !.collections = Append(@, FeatureFlagsCollection(options))]
  IN  IF OptDisabled(options) THEN c2
      ELSE LET c3  == OrEmpty(OrEmpty(c2, "endpoints"), "admin")
               adm == OrEmpty(c3.admin, "components")
               c4  == [c3 EXCEPT !.admin =
                         [adm EXCEPT !.components = WithComponents(build, @)]]
           IN  IF build # "listView" /\ OptEnableApi(options)
               THEN [c4 EXCEPT !.endpoints = @ \o PluginEndpoints(options)]
               ELSE c4

\* What the application's config may set before the plugin runs.
ConfigFields == {"collections", "endpoints", "admin"}

ConfigValues(f) ==
  IF f = "collections"
  THEN { << [slug |-> "users", useAsTitle |-> "email"] >>,
         << [slug |-> "users", useAsTitle |-> "email"],
            [slug |-> "media", useAsTitle |-> "filename"] >> }
  ELSE IF f = "endpoints"
  THEN { << >>,
         << Endpoint("get", "/health", "health") >>,
         << Endpoint("post", "/feature-flags", "own") >> }
  ELSE { EmptyObject,
         [components |-> EmptyObject],
         [components |->
            [beforeDashboard |-> << "own#Banner" >>,
             views |-> [own |-> [Component |-> "own#View", path |-> "/own"]]]] }

\* A change of what the plugin is given; what it returned is gone.
Configure(build, options, config) ==
  /\ plugin' = [build |-> build, options |-> options, config |-> config,
                returned |-> NotApplied]
  /\ UNCHANGED <<store, userId, call, readAccess, response, payload, hook, inflight, latest, listHook, table, net>>

ChooseBuild ==
  \E b \in Builds :
    /\ b # plugin.build
    /\ Configure(b, [f \in (DOMAIN plugin.options) \cap OptionNames(b)
                        |-> plugin.options[f]], plugin.config)

SetOption ==
  \E f \in OptionNames(plugin.build) :
    \E v \in OptionValues(f) :
      /\ IF HasField(plugin.options, f) THEN plugin.options[f] # v ELSE TRUE
      /\ Configure(plugin.build, SetField(plugin.options, f, v), plugin.config)

OmitOption ==
  \E f \in DOMAIN plugin.options :
    Configure(plugin.build, DropField(plugin.options, f), plugin.config)

SetConfigField ==
  \E f \in ConfigFields :
    \E v \in ConfigValues(f) :
      /\ IF HasField(plugin.config, f) THEN plugin.config[f] # v ELSE TRUE
      /\ Configure(plugin.build, plugin.options, SetField(plugin.config, f, v))

OmitConfigField ==
  \E f \in DOMAIN plugin.config :
    Configure(plugin.build, plugin.options, DropField(plugin.config, f))

\* Payload applies the plugin to the config.
ApplyPlugin ==
  /\ ~plugin.returned.done
  /\ plugin' = [plugin EXCEPT !.returned =
       [done |-> TRUE,
        config |-> PayloadFeatureFlags(plugin.build, plugin.options, plugin.config)]]
  /\ UNCHANGED <<store, userId, call, readAccess, response, payload, hook, inflight, latest, listHook, table, net>>

NextPlugin ==
  \/ ChooseBuild
  \/ SetOption
  \/ OmitOption
  \/ SetConfigField
  \/ OmitConfigField
  \/ ApplyPlugin

SpecPlugin == Init /\ [][NextPlugin]_vars

-----------------------------------------------------------------------------
(* Properties of the evaluators *)

RolloutOps == {"isUserInRollout", "useRolloutCheck"}

VariantOps == {"getUserVariant", "useVariantSelection"}

\* The flag the last call evaluated.
TheFlag == GetFeatureFlag(store, FlagName)

Enabled == Stored /\ store[FlagName].enabled

Disabled == Stored /\ ~store[FlagName].enabled

HasPercentage == Stored /\ HasField(store[FlagName], "rolloutPercentage")

HasVariants ==
  Stored /\ HasField(store[FlagName], "variants") /\ Len(store[FlagName].variants) > 0

\* The last call reached the hash computation.
Hashed ==
  \/ /\ call.op = "isUserInRollout"
     /\ Enabled /\ HasPercentage
     /\ store[FlagName].rolloutPercentage \notin {0, 100}
  \/ /\ call.op = "useRolloutCheck"
     /\ Enabled /\ HasPercentage
     /\ store[FlagName].rolloutPercentage \in 1 .. 99
  \/ /\ call.op \in VariantOps
     /\ Enabled /\ HasVariants

\* C1: for an enabled flag whose rolloutPercentage is 0, the rollout
\* decision is false for every userId, on the server path
\* (isUserInRollout) and on the client path (useRolloutCheck).
C1_ZeroRolloutIsFalse ==
  (/\ call.op \in RolloutOps
   /\ Enabled /\ HasPercentage
   /\ store[FlagName].rolloutPercentage = 0)
  => call.result = FALSE

\* The reference hash: h = (h * 31 + code) mod 2^32, read as a signed
\* 32-bit integer after every step, starting from 0.
RefStep(h, code) == ToInt32(Norm(31 * h.hi, 31 * h.lo + code))

RECURSIVE RefReduce(_, _)
RefReduce(chars, h) ==
  IF chars = << >> THEN h ELSE RefReduce(Tail(chars), RefStep(h, Head(chars)))

RefHash(id) == RefReduce(id, [hi |-> 0, lo |-> 0])

RefBucket(id) == Mod100(MathAbs(RefHash(id)))

\* The code's accumulator is a signed 32-bit integer after every step.
StaysInInt32(id) == \A k \in 0 .. Len(id) : InInt32(Hash(SubSeq(id, 1, k)))

\* C2, as claimed: for every userId the bucket the code computes equals
\* abs(h) mod 100 of the reference hash h.
C2_BucketEqualsReference ==
  Hashed => Bucket(userId) = RefBucket(userId)

\* C2, amended: the bucket the code computes equals abs(h) mod 100 of the
\* reference hash h for every userId on which the code's accumulator stays
\* within the signed 32-bit range after every step.
C2_BucketEqualsReferenceInRange ==
  (Hashed /\ StaysInInt32(userId)) => Bucket(userId) = RefBucket(userId)

\* A call on a userId whose hash wrapped around (it is negative) while the
\* code's accumulator stayed within 32 bits.
C2_Witness ==
  /\ Hashed
  /\ StaysInInt32(userId)
  /\ Hash(userId).hi < 0
  /\ Len(userId) = MaxLen

\* C5: for a flag with enabled = false the rollout decision is false and
\* the variant selection is null, for every userId, rolloutPercentage and
\* variants list.
C5_DisabledDominance ==
  /\ (call.op \in RolloutOps /\ Disabled) => call.result = FALSE
  /\ (call.op \in VariantOps /\ Disabled) => call.result = Null

C5_Witness ==
  /\ call.op = "getUserVariant"
  /\ Disabled /\ HasVariants /\ HasPercentage
  /\ store[FlagName].rolloutPercentage = 100
  /\ userId # << >>

\* C6: for an enabled flag whose rolloutPercentage is absent or at least
\* 100, the rollout decision is true for every userId, the empty one
\* included.
C6_FullRollout ==
  (/\ call.op \in RolloutOps
   /\ Enabled
   /\ (~HasPercentage \/ store[FlagName].rolloutPercentage >= 100))
  => call.result = TRUE

C6_Witness ==
  /\ call.op = "useRolloutCheck"
  /\ Enabled /\ ~HasPercentage
  /\ userId = << >>

\* C7: for an enabled flag with 0 < rolloutPercentage < 100 the rollout
\* decision is true exactly when the userId's bucket is strictly less than
\* rolloutPercentage.
C7_RolloutIffBucketBelow ==
  (/\ call.op \in RolloutOps
   /\ Enabled /\ HasPercentage
   /\ store[FlagName].rolloutPercentage \in 1 .. 99)
  => (call.result <=> (Bucket(userId) < store[FlagName].rolloutPercentage))

\* A call that returns false on the boundary: the bucket equals the
\* percentage.
C7_Witness ==
  /\ call.op = "isUserInRollout"
  /\ Enabled /\ HasPercentage
  /\ store[FlagName].rolloutPercentage \in 1 .. 99
  /\ Bucket(userId) = store[FlagName].rolloutPercentage
  /\ call.result = FALSE

\* C8: the bucket computed from a userId is an integer b with
\* 0 <= b < 100, for every userId.
C8_BucketRange ==
  Hashed => Bucket(userId) \in 0 .. 99

\* A call on a userId with a code unit above 127 whose accumulator is
\* negative and outside the signed 32-bit range.
C8_Witness ==
  /\ Hashed
  /\ Hash(userId).hi < -32768
  /\ \E i \in 1 .. Len(userId) : userId[i] > 127

RECURSIVE SumTo(_, _)
SumTo(variants, i) == IF i = 0 THEN 0 ELSE SumTo(variants, i - 1) + variants[i].weight

\* C9: for an enabled flag with a non-empty variants list, variant
\* selection returns the name of the first variant, in list order, whose
\* running sum of weights is strictly greater than the userId's bucket.
C9_FirstVariantAboveBucket ==
  (call.op \in VariantOps /\ Enabled /\ HasVariants)
  => LET vs == store[FlagName].variants
         b  == Bucket(userId)
     IN  \A i \in 1 .. Len(vs) :
           (/\ b < SumTo(vs, i)
            /\ \A j \in 1 .. (i - 1) : ~(b < SumTo(vs, j)))
           => call.result = vs[i].name

\* A call that returns the second variant although the third one's
\* running sum exceeds the bucket too.
C9_Witness ==
  /\ call.op = "getUserVariant"
  /\ Enabled /\ HasVariants
  /\ LET vs == store[FlagName].variants
         b  == Bucket(userId)
     IN  /\ Len(vs) = 3
         /\ ~(b < SumTo(vs, 1))
         /\ b < SumTo(vs, 2)
         /\ b < SumTo(vs, 3)
         /\ call.result = vs[2].name

\* C10, as claimed: for an enabled flag with a non-empty variants list
\* whose weights sum to less than 100, every userId whose bucket is at
\* least the sum of the weights is assigned the first variant.
C10_FallbackBeyondSum ==
  (/\ call.op \in VariantOps /\ Enabled /\ HasVariants
   /\ SumTo(store[FlagName].variants, Len(store[FlagName].variants)) < 100
   /\ Bucket(userId) >= SumTo(store[FlagName].variants, Len(store[FlagName].variants)))
  => call.result = store[FlagName].variants[1].name

NonNegativeWeights(variants) == \A i \in 1 .. Len(variants) : variants[i].weight >= 0

\* C10, amended: the same for a variants list none of whose weights is
\* negative.
C10_FallbackBeyondSumNonNegative ==
  (/\ call.op \in VariantOps /\ Enabled /\ HasVariants
   /\ NonNegativeWeights(store[FlagName].variants)
   /\ SumTo(store[FlagName].variants, Len(store[FlagName].variants)) < 100
   /\ Bucket(userId) >= SumTo(store[FlagName].variants, Len(store[FlagName].variants)))
  => call.result = store[FlagName].variants[1].name

C10_Witness ==
  /\ call.op = "useVariantSelection"
  /\ Enabled /\ HasVariants
  /\ Len(store[FlagName].variants) = 2
  /\ NonNegativeWeights(store[FlagName].variants)
  /\ SumTo(store[FlagName].variants, 2) < 100
  /\ Bucket(userId) >= SumTo(store[FlagName].variants, 2)
  /\ call.result = store[FlagName].variants[1].name

\* C11: for an enabled flag whose variants list has exactly one entry,
\* variant selection returns that entry's name for every userId and every
\* weight, 0 and weights below 100 included.
C11_SingleVariant ==
  (/\ call.op \in VariantOps /\ Enabled /\ HasVariants
   /\ Len(store[FlagName].variants) = 1)
  => call.result = store[FlagName].variants[1].name

\* A call on a single variant of weight 0 and a non-empty userId.
C11_Witness ==
  /\ call.op = "getUserVariant"
  /\ Enabled /\ HasVariants
  /\ Len(store[FlagName].variants) = 1
  /\ store[FlagName].variants[1].weight = 0
  /\ Len(userId) > 1
  /\ call.result = "A"

VariantNames(variants) == { variants[i].name : i \in 1 .. Len(variants) }

\* C12: variant selection returns null exactly when the flag is disabled
\* or its variants list is absent or empty; for an enabled flag with a
\* non-empty list it returns the name of one of the listed variants, for
\* every userId and every weight assignment.
C12_NullIffNoVariants ==
  (call.op \in VariantOps /\ Stored)
  => /\ (call.result = Null) <=> (Disabled \/ ~HasVariants)
     /\ (Enabled /\ HasVariants)
          => call.result \in VariantNames(store[FlagName].variants)

\* A call on a list with a negative weight where no running sum exceeds
\* the bucket.
C12_Witness ==
  /\ call.op = "useVariantSelection"
  /\ Enabled /\ HasVariants
  /\ ~NonNegativeWeights(store[FlagName].variants)
  /\ \A i \in 1 .. Len(store[FlagName].variants) :
        ~(Bucket(userId) < SumTo(store[FlagName].variants, i))
  /\ call.result = "A"

\* C13: a variant whose weight is 0 is returned only when it is the first
\* variant of the list and no variant's running sum exceeds the bucket
\* (the fallback), never through the cumulative-weight comparison.
C13_ZeroWeightOnlyByFallback ==
  (call.op \in VariantOps /\ Enabled /\ HasVariants)
  => LET vs == store[FlagName].variants
         b  == Bucket(userId)
     IN  \A i \in 1 .. Len(vs) :
           (vs[i].weight = 0 /\ call.result = vs[i].name)
           => /\ i = 1
              /\ \A j \in 1 .. Len(vs) : ~(b < SumTo(vs, j))

\* The fallback returns the first variant, whose weight is 0, of a list of
\* two.
C13_Witness ==
  /\ call.op = "getUserVariant"
  /\ Enabled /\ HasVariants
  /\ Len(store[FlagName].variants) = 2
  /\ store[FlagName].variants[1].weight = 0
  /\ call.result = store[FlagName].variants[1].name

\* C20: the server and client evaluators agree: on every flag and userId
\* isUserInRollout returns what useRolloutCheck reports as isInRollout and
\* getUserVariant returns what useVariantSelection reports as variant.
C20_ServerClientAgree ==
  /\ call.op = "isUserInRollout" => call.result = UseRolloutCheck(TheFlag, userId)
  /\ call.op = "useRolloutCheck" => call.result = ServerRollout(TheFlag, userId)
  /\ call.op = "getUserVariant" => call.result = UseVariantSelection(TheFlag, userId)
  /\ call.op = "useVariantSelection" => call.result = ServerVariant(TheFlag, userId)

\* A server call on a negative rolloutPercentage.
C20_Witness ==
  /\ call.op = "isUserInRollout"
  /\ Enabled /\ HasPercentage
  /\ store[FlagName].rolloutPercentage < 0
  /\ userId # << >>
  /\ call.result = FALSE

\* The stored flag with another rolloutPercentage.
AtPercentage(q) == [store[FlagName] EXCEPT !.rolloutPercentage = q]

\* C21: rollouts are sticky when the percentage grows: for an enabled
\* flag, every userId and all percentages 0 < p <= q, a rollout decision
\* that is true at rolloutPercentage p is true at rolloutPercentage q.
C21_StickyRollout ==
  (/\ call.op \in RolloutOps /\ Enabled /\ HasPercentage
   /\ store[FlagName].rolloutPercentage > 0
   /\ call.result = TRUE)
  => \A q \in Percentages :
       q >= store[FlagName].rolloutPercentage
       => /\ ServerRollout(AtPercentage(q), userId)
          /\ UseRolloutCheck(AtPercentage(q), userId)

\* A user admitted at 50 by the bucket comparison.
C21_Witness ==
  /\ call.op = "useRolloutCheck"
  /\ Enabled /\ HasPercentage
  /\ store[FlagName].rolloutPercentage = 50
  /\ userId # << >>
  /\ Bucket(userId) > 0
  /\ call.result = TRUE

-----------------------------------------------------------------------------
(* Properties of the REST endpoints *)

\* The response carries data of a stored flag.
CarriesFlagData ==
  /\ response.status = 200
  /\ \/ HasField(response.body, "enabled")
     \/ \E n \in DOMAIN store : HasField(response.body, n)

\* C3: a request whose user the collection's read access rule denies
\* receives no flag data from GET /api/feature-flags nor from
\* GET /api/feature-flags/:flag.
C3_EndpointsRespectReadAccess ==
  (response.status # 0 /\ ~ReadAllowed(readAccess, response.user))
  => ~CarriesFlagData

\* The document the utilities can obtain, null when there is none.
Obtained == IF FindReturns /\ Stored THEN store[FlagName] ELSE NoFlag

\* C14: evaluation fails closed. When the flag cannot be obtained (no flag
\* has the name, the lookup throws, or no payload is passed)
\* isFeatureEnabled and isUserInRollout return false and getUserVariant
\* returns null; while the hook holds no flag (loading, not found, fetch
\* error) useRolloutCheck reports false and useVariantSelection null.
C14_FailClosed ==
  /\ (call.op \in {"isFeatureEnabled", "isUserInRollout"} /\ Obtained = NoFlag)
     => call.result = FALSE
  /\ (call.op = "getUserVariant" /\ Obtained = NoFlag) => call.result = Null
  /\ (call.op = "useRolloutCheck" /\ hook.flag = NoFlag) => call.result = FALSE
  /\ (call.op = "useVariantSelection" /\ hook.flag = NoFlag) => call.result = Null

\* The lookup throws on a stored flag that is enabled for everyone, and
\* the hook's fetch has failed.
C14_Witness ==
  /\ payload = "throws"
  /\ Enabled /\ ~HasPercentage
  /\ call.op = "isUserInRollout" /\ call.result = FALSE
  /\ hook.flag = NoFlag /\ ~hook.loading
  /\ hook.error = "Failed to fetch feature flag"

\* C15: the server-side utilities keep no cache: what a call of
\* isFeatureEnabled, isUserInRollout or getUserVariant returns is computed
\* from the document stored at the time of the call, so the first call
\* after a change reflects the change.
C15_NoCache ==
  /\ call.op = "isFeatureEnabled"
     => call.result = (Obtained # NoFlag /\ Obtained.enabled)
  /\ call.op = "isUserInRollout" => call.result = ServerRollout(Obtained, userId)
  /\ call.op = "getUserVariant" => call.result = ServerVariant(Obtained, userId)

\* isFeatureEnabled had returned true, the flag changed, and the next call
\* returns false.
C15_Witness ==
  /\ call.op = "isFeatureEnabled"
  /\ HasField(call, "after")
  /\ call.after = TRUE
  /\ call.result = FALSE
  /\ Disabled /\ FindReturns

-----------------------------------------------------------------------------
(* Properties of the hooks *)

\* C22: when fetches of useSpecificFeatureFlag overlap, once all of them
\* have settled the flag and error are those of the most recently started
\* fetch.
C22_LatestFetchWins ==
  (inflight = 0 /\ HasField(latest, "flag"))
  => (hook.flag = latest.flag /\ hook.error = latest.error)

\* C23: in every state where loading is false after a fetch has settled,
\* exactly one of flag and error is non-null.
C23_FlagXorError ==
  ~hook.loading => ((hook.flag # NoFlag) # (hook.error # Null))

\* C24: every settling fetch of useFeatureFlags and of
\* useSpecificFeatureFlag leaves loading false, whatever its outcome; once
\* no fetch is unsettled loading is false; and a started fetch leads to
\* loading false (for the wrapper's hook, unless the component unmounts
\* first).
C24_LoadingEnds ==
  /\ [][(inflight' < inflight => ~hook'.loading)
        /\ ((listHook.pending > 0 /\ listHook'.pending = 0 /\ listHook'.mounted)
              => ~listHook'.loading)]_vars
  /\ []((inflight = 0 /\ hook # InitialHook) => ~hook.loading)
  /\ []((listHook.mounted /\ listHook.pending = 0) => ~listHook.loading)
  /\ ((inflight > 0) ~> ~hook.loading)
  /\ ((listHook.pending > 0) ~> (~listHook.loading \/ ~listHook.mounted))

\* Both hooks have settled a failed fetch and no fetch is unsettled.
C24_Witness ==
  /\ inflight = 0 /\ ~hook.loading /\ hook.error = "rejected"
  /\ listHook.mounted /\ listHook.pending = 0 /\ ~listHook.loading
  /\ listHook.error = "Failed to fetch feature flags"

\* The flag useFeatureFlag finds in the wrapper's state.
GateFlag == listHook.flags[1]

\* C29: a component wrapped by withFeatureFlag renders the wrapped
\* component only when loading is false and the flag is loaded with
\* enabled = true; while loading it renders nothing; when the flag is
\* disabled, missing or could not be fetched it renders the fallback if
\* one was given and nothing otherwise.
C29_Gate ==
  call.op = "withFeatureFlag"
  => LET el == call.result.element
     IN  /\ el = "wrapped"
            => (/\ ~listHook.loading
                /\ "enabled" \in DOMAIN GateFlag
                /\ GateFlag.enabled = TRUE
                /\ listHook.error = Null)
         /\ listHook.loading => el = "nothing"
         /\ (/\ ~listHook.loading
             /\ \/ "enabled" \notin DOMAIN GateFlag
                \/ listHook.error # Null
                \/ GateFlag.enabled = FALSE)
            => el = (IF call.result.fallback THEN "fallback" ELSE "nothing")

\* The fetch failed while the stored flag is enabled, and the fallback is
\* rendered.
C29_Witness ==
  /\ call.op = "withFeatureFlag"
  /\ Enabled
  /\ ~listHook.loading /\ listHook.error = "rejected"
  /\ call.result.element = "fallback"

-----------------------------------------------------------------------------
(* Properties of the admin table *)

\* C25: updateFlag called while canUpdate is false sends no PATCH and
\* changes nothing of the table's state but error, which becomes the
\* permission message; while that message is shown a timer that clears it
\* is set, and it is cleared.
C25_DeniedUpdate ==
  /\ [][~net.canUpdate => Len(net'.patches) <= Len(net.patches)]_vars
  /\ [][(UpdateFlag /\ ~net.canUpdate) =>
          /\ net'.patches = net.patches
          /\ table' = [table EXCEPT !.error = PermissionError]
          /\ net'.errorTimer]_vars
  /\ [](table.error = PermissionError => net.errorTimer)
  /\ (table.error = PermissionError) ~> (table.error = "")

\* updateFlag was refused: the message is shown, nothing is being saved.
C25_Witness ==
  /\ ~net.canUpdate
  /\ table.error = PermissionError
  /\ net.patches = << >>
  /\ table.saving = NoId
  /\ table.flags = InitialFlags

\* The rows after the PATCH patch succeeded, from the rows before.
RowsAfter(flags, patch) ==
  [j \in 1 .. Len(flags) |->
     IF flags[j].id = patch.id
     THEN [flags[j] EXCEPT !.enabled = patch.updates.enabled, !.updatedAt = "t1"]
     ELSE flags[j]]

\* C26: calling updateFlag leaves the rows as they are; when its PATCH
\* settles, either the row whose id is flagId has the updates and a new
\* updatedAt and every other row is unchanged, or the rows are unchanged
\* and error is set; in both cases saving is null.
C26_UpdateOnlyOnSuccess ==
  /\ [][UpdateFlag => table'.flags = table.flags]_vars
  /\ [][Len(net'.patches) < Len(net.patches) =>
          \E i \in 1 .. Len(net.patches) :
            /\ net'.patches = Remove(net.patches, i)
            /\ table'.saving = NoId
            /\ \/ /\ table'.flags = RowsAfter(table.flags, net.patches[i])
                  /\ table'.error = table.error
               \/ /\ table'.flags = table.flags
                  /\ table'.error \in {UpdateErrors.notOk, UpdateErrors.rejected}]_vars

\* A PATCH for flag 1 succeeded: row 1 has the update, row 2 is as it was.
C26_Witness ==
  /\ table.successMessage = Saved
  /\ table.flags = << Entry(1, TRUE, "t1"), Entry(2, FALSE, "t0") >>
  /\ table.saving = NoId

\* C27: while a PATCH for a flag has not settled, saving is that flag's
\* id.
C27_SavingHeld ==
  \A i \in 1 .. Len(net.patches) : table.saving = net.patches[i].id

\* C28: when a fetch whose signal was aborted settles, flags, error and
\* loading stay as they were.
C28_AbortedFetchSilent ==
  [][net'.aborted < net.aborted =>
       /\ table'.flags = table.flags
       /\ table'.error = table.error
       /\ table'.loading = table.loading]_vars

\* An aborted fetch settled while the button's fetch was still loading.
C28_Witness ==
  /\ net.abortedSettled
  /\ net.aborted = 0
  /\ net.plain = 1
  /\ table.loading
  /\ table.flags = InitialFlags

-----------------------------------------------------------------------------
(* Properties of the plugin *)

\* The entries of a list of the config, none when the config has no such
\* list.
Entries(config, f) == IF f \in DOMAIN config THEN config[f] ELSE << >>

Applied == plugin.returned.done

OptionIs(f, v) == f \in DOMAIN plugin.options /\ plugin.options[f] = v

\* C18: the plugin registers its REST endpoints exactly when enableApi is
\* true and disabled is not true: then config.endpoints gains exactly the
\* GET endpoints '/feature-flags' and '/feature-flags/:flag' after the
\* existing ones, which are kept as they were; otherwise it gains no
\* entry.
C18_EndpointsIffEnableApi ==
  Applied
  => LET before == Entries(plugin.config, "endpoints")
         after  == Entries(plugin.returned.config, "endpoints")
     IN  IF OptionIs("enableApi", TRUE) /\ ~OptionIs("disabled", TRUE)
         THEN /\ Len(after) = Len(before) + 2
              /\ SubSeq(after, 1, Len(before)) = before
              /\ after[Len(before) + 1].method = "get"
              /\ after[Len(before) + 1].path = "/feature-flags"
              /\ after[Len(before) + 2].method = "get"
              /\ after[Len(before) + 2].path = "/feature-flags/:flag"
         ELSE after = before

\* The plugin ran with enableApi: true on a config that had an endpoint.
C18_Witness ==
  /\ Applied
  /\ OptionIs("enableApi", TRUE) /\ OptionIs("disabled", FALSE)
  /\ Len(Entries(plugin.config, "endpoints")) = 1
  /\ Len(Entries(plugin.returned.config, "endpoints")) = 3

\* C19: with disabled: true the returned config holds the feature-flags
\* collection, pushed once after the existing collections, and nothing
\* else of the config is changed: no endpoint, no admin view, no dashboard
\* component.
C19_DisabledKeepsCollection ==
  (Applied /\ OptionIs("disabled", TRUE))
  => LET before == plugin.config
         after  == plugin.returned.config
         colls  == Entries(after, "collections")
         n      == Len(Entries(before, "collections"))
     IN  /\ DOMAIN after = DOMAIN before \cup {"collections"}
         /\ \A f \in (DOMAIN before) \ {"collections"} : after[f] = before[f]
         /\ Len(colls) = n + 1
         /\ SubSeq(colls, 1, n) = Entries(before, "collections")
         /\ colls[n + 1].slug =
              (IF "slug" \in DOMAIN plugin.options THEN plugin.options.slug
               ELSE "feature-flags")

\* The plugin ran with disabled: true and enableApi: true on a config
\* with collections and without endpoints or admin.
C19_Witness ==
  /\ Applied
  /\ OptionIs("disabled", TRUE) /\ OptionIs("enableApi", TRUE)
  /\ DOMAIN plugin.config = {"collections"}
  /\ DOMAIN plugin.returned.config = {"collections"}
  /\ Len(plugin.returned.config.collections) = 3

-----------------------------------------------------------------------------
(* Properties of the list and flag operations *)

\* The fields a response or a FeatureFlag carries of a document.
Served(doc) ==
  [k \in (DOMAIN doc) \cap {"name", "enabled", "rolloutPercentage", "variants", "metadata"}
     |-> doc[k]]

\* C16: GET /api/feature-flags/:flagName answers with the named flag's
\* name, enabled, rolloutPercentage, variants and metadata for every stored
\* flag name, and with 404 'Feature flag not found' when no flag has the
\* name.
C16_SpecificFlagEndpoint ==
  (response.status # 0 /\ Len(response.path) = 3)
  => LET n == response.path[3]
     IN  IF n \in DOMAIN store
         THEN response.status = 200 /\ response.body = Served(store[n])
         ELSE /\ response.status = 404
              /\ response.body = [error |-> "Feature flag not found"]

EnabledNames == { n \in DOMAIN store : store[n].enabled = TRUE }

=============================================================================
